---- MODULE Spec2Model ----
(***************************************************************************)
(* Two FastAPI services of the repository.                                 *)
(*                                                                         *)
(*  - the agent service (src/app/main.py, src/app/routers/                 *)
(*    chatbot_router.py, src/app/agent/Agent.py): the chat handler is a    *)
(*    plain `def`, so the framework runs it on a thread pool and several   *)
(*    chat requests execute get_agent() and Agent.chat() concurrently;     *)
(*  - the retriever service (src/main.py): lifespan hook, root and         *)
(*    metrics endpoints and the global exception handler.                  *)
(*                                                                         *)
(* Python values are modelled as follows: strings are strings, None is     *)
(* the record PyNone, a dict is a record, a list is a sequence.  Calls     *)
(* into third-party libraries (graph compilation, graph invocation, data   *)
(* store clients) either return or raise an Exception whose text is drawn  *)
(* from ErrTexts.                                                          *)
(***************************************************************************)
EXTENDS Integers, Sequences, FiniteSets, TLC

\* ------------------------------------------------------------------ bounds
MaxRequests == 3         \* chat requests accepted in one run
MaxClock == 1            \* readings of the wall clock
MaxRetrRequests == 2     \* requests of the retriever service in one run

Workers == {"w1", "w2"}   \* threads of the pool that run the chat handler
Messages == {"q1", "q2"}
ErrTexts == {"boom", "down"}
Clock == 0..MaxClock
Versions == {"1.0.0", "2.3.1"}

\* --------------------------------------------------------- program values
NoAgent == 0
HTTP_200_OK == 200
HTTP_400_BAD_REQUEST == 400
HTTP_500 == 500

PyNone == [py |-> "None"]
EmptyDict == <<>>
NoExc == "<no exception>"
Placeholder == "this is the pseudo generated message from an AI"
OkMessage == "Answer generated successfully"
FailMessage == "Chatting failed, something went wrong."

\* A record handed to a logger: level, message text and the value formatted
\* into the message.
LogRec(level, msg, arg) == [level |-> level, msg |-> msg, arg |-> arg]

HumanMessage(content) == [type |-> "human", content |-> content]
AIMessage(content) == [type |-> "ai", content |-> content]

\* langgraph reducer attached to AgentState.messages: the update of a node
\* is merged into the list already in the state (messages carry no id here,
\* so merging appends).
add_messages_overwrite(left, right) == right
add_messages(left, right) == left \o right

\* pydantic model ErrorResponse: both declared fields are required, fields
\* that are not declared are ignored.
ErrorResponseFields == {"error_code", "error_message"}
ErrorResponseValid(kw) == ErrorResponseFields \subseteq DOMAIN kw
ErrorResponse(kw) == [f \in ErrorResponseFields |-> kw[f]]

VARIABLES
    \* ---- agent service
    app_version,    \* settings.app_version
    agent,          \* module global `agent` of Agent.py (NoAgent = None)
    constructed,    \* number of Agent instances built so far (ids 1..n)
    assigned,       \* number of stores into the global `agent`
    agent_log,      \* records emitted by the agent service's loggers
    started,        \* chat requests accepted so far
    pc,             \* per worker: position inside the chat handler
    in_message,     \* per worker: request.in_message
    fresh,          \* per worker: Agent() result not yet stored
    checked_at,     \* per worker: value of `assigned` at its None check
    held,           \* per worker: local `agent` of the handler
    gstate,         \* per worker: graph state of the running invocation
    trace,          \* per worker: graph nodes run by the invocation
    exc,            \* per worker: exception raised in the try block
    attempts,       \* per worker: times the request entered the try block
    resp,           \* per worker: value returned by the handler
    health,         \* last value returned by health_check
    \* ---- retriever service
    debug,          \* settings.debug
    life,           \* position of the lifespan hook
    calls,          \* startup/shutdown functions awaited so far
    startup_exc,    \* exception re-raised by the startup phase
    retr_log,       \* records emitted by the retriever service's logger
    served,         \* requests handled by the retriever service
    retr_resp       \* outcome of the last retriever request

agentVars == <<app_version, agent, constructed, assigned, agent_log, started,
               pc, in_message, fresh, checked_at, held, gstate, trace, exc,
               attempts, resp, health>>
retrVars == <<debug, life, calls, startup_exc, retr_log, served, retr_resp>>
vars == <<agentVars, retrVars>>

\* ================================================================ agent service

\* Agent.chat: the state handed to workflow.invoke.
InitialState(m) ==
    [user_message |-> m, messages |-> <<>>, gen_sql_query |-> PyNone,
     sql_explanation |-> PyNone, logic_sim_th |-> "0.3",
     table_sim_th |-> "0.3", augment |-> PyNone]

\* get_agent: the test `agent is None`.
AlwaysConstruct(a) == TRUE
NeedsConstruction(a) == a = NoAgent

\* chat, try branch: the APIChatResponse returned with status 200.
ChatOkResponseNoData(state) ==
    [status |-> HTTP_200_OK, data |-> PyNone, message |-> OkMessage,
     error |-> PyNone]
ChatOkResponse(state) ==
    [status |-> HTTP_200_OK, data |-> state, message |-> OkMessage,
     error |-> PyNone]

\* chat, except branch: the APIChatResponse returned with status 400; an
\* ErrorResponse that fails validation raises out of the handler.
ChatErrorResponseGeneric(e) ==
    [status |-> HTTP_400_BAD_REQUEST, data |-> EmptyDict,
     message |-> FailMessage,
     error |-> ErrorResponse([error_code |-> HTTP_400_BAD_REQUEST,
                              error_message |-> FailMessage])]
ChatErrorResponse(e) ==
    LET kw == [error_code |-> HTTP_400_BAD_REQUEST, error_message |-> e]
    IN  IF ErrorResponseValid(kw)
        THEN [status |-> HTTP_400_BAD_REQUEST, data |-> EmptyDict,
              message |-> FailMessage, error |-> ErrorResponse(kw)]
        ELSE [propagated |-> "ValidationError"]

\* datetime.now(timezone.utc) and datetime.isoformat
utc_now(tick) == [tick |-> tick, tz |-> "UTC"]
naive_now(tick) == [tick |-> tick, tz |-> "naive"]
isoformat(dt) ==
    [iso |-> dt.tick, offset |-> IF dt.tz = "UTC" THEN "+00:00" ELSE ""]

\* health_check: the dict returned after the try block succeeded.
health_check_unhealthy(now) ==
    [status |-> "unhealthy", time_and_zone |-> PyNone,
     version |-> app_version]
health_check_response(now) ==
    LET utc_dt == utc_now(now)
        db_status == "healthy"
    IN  [status |-> db_status,
         time_and_zone |-> IF utc_dt # PyNone THEN isoformat(utc_dt)
                           ELSE PyNone,
         version |-> app_version]

InitAgent ==
    /\ app_version \in Versions
    /\ agent = NoAgent
    /\ constructed = 0
    /\ assigned = 0
    /\ agent_log = <<>>
    /\ started = 0
    /\ pc = [t \in Workers |-> "idle"]
    /\ in_message = [t \in Workers |-> PyNone]
    /\ fresh = [t \in Workers |-> NoAgent]
    /\ checked_at = [t \in Workers |-> 0]
    /\ held = [t \in Workers |-> NoAgent]
    /\ gstate = [t \in Workers |-> PyNone]
    /\ trace = [t \in Workers |-> <<>>]
    /\ exc = [t \in Workers |-> NoExc]
    /\ attempts = [t \in Workers |-> 0]
    /\ resp = [t \in Workers |-> PyNone]
    /\ health = PyNone

\* The framework validates the body against InChatRequest and calls chat()
\* on a free worker thread.
Receive(t) ==
    /\ pc[t] = "idle"
    /\ started < MaxRequests
    /\ \E m \in Messages : in_message' = [in_message EXCEPT ![t] = m]
    /\ started' = started + 1
    /\ pc' = [pc EXCEPT ![t] = "try"]
    /\ UNCHANGED <<retrVars, app_version, agent, constructed, assigned, agent_log,
                   fresh, checked_at, held, gstate, trace, exc, attempts,
                   resp, health>>

\* chat enters the try block and get_agent() reads the global for the test.
GetAgentCheck(t) ==
    /\ pc[t] = "try"
    /\ attempts' = [attempts EXCEPT ![t] = @ + 1]
    /\ checked_at' = [checked_at EXCEPT ![t] = assigned]
    /\ pc' = [pc EXCEPT ![t] = IF NeedsConstruction(agent) THEN "construct"
                                ELSE "return_agent"]
    /\ UNCHANGED <<retrVars, app_version, agent, constructed, assigned, agent_log,
                   started, in_message, fresh, held, gstate, trace, exc,
                   resp, health>>

\* Agent(): __init__ logs, then _agent_init builds and compiles the graph.
AgentConstruct(t) ==
    /\ pc[t] = "construct"
    /\ agent_log' = Append(agent_log, LogRec("info", "Agent initialized", ""))
    /\ \/ /\ constructed' = constructed + 1
          /\ fresh' = [fresh EXCEPT ![t] = constructed + 1]
          /\ pc' = [pc EXCEPT ![t] = "store"]
          /\ exc' = exc
       \/ /\ \E e \in ErrTexts : exc' = [exc EXCEPT ![t] = e]
          /\ pc' = [pc EXCEPT ![t] = "except"]
          /\ UNCHANGED <<constructed, fresh>>
    /\ UNCHANGED <<retrVars, app_version, agent, assigned, started, in_message,
                   checked_at, held, gstate, trace, attempts, resp, health>>

\* get_agent: the store `agent = ...` into the module global.
AgentStore(t) ==
    /\ pc[t] = "store"
    /\ agent' = fresh[t]
    /\ assigned' = assigned + 1
    /\ pc' = [pc EXCEPT ![t] = "return_agent"]
    /\ UNCHANGED <<retrVars, app_version, constructed, agent_log, started, in_message,
                   fresh, checked_at, held, gstate, trace, exc, attempts,
                   resp, health>>

\* get_agent: `return agent` reads the module global again; Agent.chat then
\* builds the initial state of the invocation.
GetAgentReturn(t) ==
    /\ pc[t] = "return_agent"
    /\ held' = [held EXCEPT ![t] = agent]
    /\ gstate' = [gstate EXCEPT ![t] = InitialState(in_message[t])]
    /\ trace' = [trace EXCEPT ![t] = <<>>]
    /\ pc' = [pc EXCEPT ![t] = "chat_start"]
    /\ UNCHANGED <<retrVars, app_version, agent, constructed, assigned, agent_log,
                   started, in_message, fresh, checked_at, exc, attempts,
                   resp, health>>

\* workflow.invoke, first node (edge START -> chat_start).
chat_start(t) ==
    /\ pc[t] = "chat_start"
    /\ \/ /\ gstate' = [gstate EXCEPT ![t].messages =
                 add_messages(@, <<HumanMessage(gstate[t].user_message)>>)]
          /\ trace' = [trace EXCEPT ![t] = Append(@, "chat_start")]
          /\ pc' = [pc EXCEPT ![t] = "llm_response"]
          /\ exc' = exc
       \/ /\ \E e \in ErrTexts : exc' = [exc EXCEPT ![t] = e]
          /\ pc' = [pc EXCEPT ![t] = "except"]
          /\ UNCHANGED <<gstate, trace>>
    /\ UNCHANGED <<retrVars, app_version, agent, constructed, assigned, agent_log,
                   started, in_message, fresh, checked_at, held, attempts,
                   resp, health>>

\* workflow.invoke, second node (edges chat_start -> llm_response -> END).
llmgen(t) ==
    /\ pc[t] = "llm_response"
    /\ \/ /\ gstate' = [gstate EXCEPT ![t].messages =
                 add_messages(@, <<AIMessage(Placeholder)>>)]
          /\ trace' = [trace EXCEPT ![t] = Append(@, "llm_response")]
          /\ pc' = [pc EXCEPT ![t] = "respond"]
          /\ exc' = exc
       \/ /\ \E e \in ErrTexts : exc' = [exc EXCEPT ![t] = e]
          /\ pc' = [pc EXCEPT ![t] = "except"]
          /\ UNCHANGED <<gstate, trace>>
    /\ UNCHANGED <<retrVars, app_version, agent, constructed, assigned, agent_log,
                   started, in_message, fresh, checked_at, held, attempts,
                   resp, health>>

\* chat: end of the try block.
ChatReturn(t) ==
    /\ pc[t] = "respond"
    /\ resp' = [resp EXCEPT ![t] = ChatOkResponse(gstate[t])]
    /\ pc' = [pc EXCEPT ![t] = "done"]
    /\ UNCHANGED <<retrVars, app_version, agent, constructed, assigned, agent_log,
                   started, in_message, fresh, checked_at, held, gstate,
                   trace, exc, attempts, health>>

\* chat: the except block.
ChatExcept(t) ==
    /\ pc[t] = "except"
    /\ resp' = [resp EXCEPT ![t] = ChatErrorResponse(exc[t])]
    /\ pc' = [pc EXCEPT ![t] = "done"]
    /\ UNCHANGED <<retrVars, app_version, agent, constructed, assigned, agent_log,
                   started, in_message, fresh, checked_at, held, gstate,
                   trace, exc, attempts, health>>

\* The response is sent; the handler's locals and the graph state are
\* dropped and the worker thread is free again.
Finish(t) ==
    /\ pc[t] = "done"
    /\ pc' = [pc EXCEPT ![t] = "idle"]
    /\ in_message' = [in_message EXCEPT ![t] = PyNone]
    /\ fresh' = [fresh EXCEPT ![t] = NoAgent]
    /\ checked_at' = [checked_at EXCEPT ![t] = 0]
    /\ held' = [held EXCEPT ![t] = NoAgent]
    /\ gstate' = [gstate EXCEPT ![t] = PyNone]
    /\ trace' = [trace EXCEPT ![t] = <<>>]
    /\ exc' = [exc EXCEPT ![t] = NoExc]
    /\ attempts' = [attempts EXCEPT ![t] = 0]
    /\ resp' = [resp EXCEPT ![t] = PyNone]
    /\ UNCHANGED <<retrVars, app_version, agent, constructed, assigned, agent_log,
                   started, health>>

\* GET /healthCheck
health_check ==
    /\ \E now \in Clock : health' = health_check_response(now)
    /\ UNCHANGED <<retrVars, app_version, agent, constructed, assigned, agent_log,
                   started, pc, in_message, fresh, checked_at, held, gstate,
                   trace, exc, attempts, resp>>

Next ==
    \/ \E t \in Workers : Receive(t)
    \/ \E t \in Workers : GetAgentCheck(t)
    \/ \E t \in Workers : AgentConstruct(t)
    \/ \E t \in Workers : AgentStore(t)
    \/ \E t \in Workers : GetAgentReturn(t)
    \/ \E t \in Workers : chat_start(t)
    \/ \E t \in Workers : llmgen(t)
    \/ \E t \in Workers : ChatReturn(t)
    \/ \E t \in Workers : ChatExcept(t)
    \/ \E t \in Workers : Finish(t)
    \/ health_check

\* ============================================================ retriever service

StartupOrder ==
    <<"connect_to_mongo", "connect_to_chromaDB",
      "initialize_embedding_service", "initialize_rag_retriever">>

\* lifespan: where the hook is after the except block of the startup phase
\* (`raise e` leaves the hook before the yield).
StartupFailureSwallowed == "running"
AfterStartupFailure == "aborted"

\* lifespan: where the hook is after the except block of the shutdown phase
\* (the exception is not raised again).
CloseFailureRaised == "aborted"
AfterCloseFailure == "stopped"

InitRetr ==
    /\ debug \in BOOLEAN
    /\ life = "created"
    /\ calls = <<>>
    /\ startup_exc = NoExc
    /\ retr_log = <<>>
    /\ served = 0
    /\ retr_resp = PyNone

\* One startup step of the lifespan hook: the announcing log record, the
\* awaited call, and on an exception the except block of the startup phase.
StartupStep(here, announce, fn, next) ==
    /\ life = here
    /\ calls' = Append(calls, fn)
    /\ \/ /\ life' = next
          /\ retr_log' =
               IF next = "running"
               THEN retr_log \o <<LogRec("info", announce, ""),
                        LogRec("info", "All services initialized successfully!", "")>>
               ELSE Append(retr_log, LogRec("info", announce, ""))
          /\ UNCHANGED startup_exc
       \/ \E e \in ErrTexts :
          /\ startup_exc' = e
          /\ life' = AfterStartupFailure
          /\ retr_log' = retr_log \o <<LogRec("info", announce, ""),
                  LogRec("error", "Failed to initialize services", e)>>
    /\ UNCHANGED <<agentVars, debug, served, retr_resp>>

\* lifespan is entered by the server before any request is accepted.
lifespan_enter ==
    /\ life = "created"
    /\ life' = "mongo"
    /\ retr_log' = Append(retr_log,
                     LogRec("info", "Starting RAG Retriever service...", ""))
    /\ UNCHANGED <<agentVars, debug, calls, startup_exc, served, retr_resp>>

connect_to_mongo ==
    StartupStep("mongo", "1. Connecting to MongoDB...",
                "connect_to_mongo", "chroma")

connect_to_chromaDB ==
    StartupStep("chroma", "2. Connecting to ChromaDB...",
                "connect_to_chromaDB", "embedding")

initialize_embedding_service ==
    StartupStep("embedding", "3. Initializing embedding service...",
                "initialize_embedding_service", "rag")

initialize_rag_retriever ==
    StartupStep("rag", "4. Initializing RAG retriever...",
                "initialize_rag_retriever", "running")

\* The server stops: the hook resumes after the yield.
lifespan_resume ==
    /\ life = "running"
    /\ life' = "closing"
    /\ retr_log' = Append(retr_log,
                 LogRec("info", "Shutting down RAG Retriever service...", ""))
    /\ UNCHANGED <<agentVars, debug, calls, startup_exc, served, retr_resp>>

\* lifespan: the try/except around close_mongo_connection.
close_mongo_connection ==
    /\ life = "closing"
    /\ calls' = Append(calls, "close_mongo_connection")
    /\ \/ /\ life' = "stopped"
          /\ retr_log' = Append(retr_log,
                           LogRec("info", "MongoDB connection closed", ""))
       \/ \E e \in ErrTexts :
          /\ life' = AfterCloseFailure
          /\ retr_log' = Append(retr_log,
                     LogRec("error", "Error closing MongoDB connection", e))
    /\ UNCHANGED <<agentVars, debug, startup_exc, served, retr_resp>>

\* GET /
root ==
    /\ life = "running"
    /\ served < MaxRetrRequests
    /\ served' = served + 1
    /\ \E now \in Clock :
         retr_resp' = [endpoint |-> "root", status |-> HTTP_200_OK,
                       raised |-> NoExc,
                       body |-> [version |-> app_version,
                                 status |-> "running",
                                 timestamp |-> isoformat(naive_now(now))]]
    /\ UNCHANGED <<agentVars, debug, life, calls, startup_exc, retr_log>>

\* GET /metrics: the data store clients either answer or raise; an
\* exception is logged and turned into HTTPException(500).
get_metrics ==
    /\ life = "running"
    /\ served < MaxRetrRequests
    /\ served' = served + 1
    /\ \/ /\ \E now \in Clock :
               retr_resp' = [endpoint |-> "metrics", status |-> HTTP_200_OK,
                             raised |-> NoExc,
                             body |-> [debug_mode |-> debug,
                                 timestamp |-> isoformat(naive_now(now))]]
          /\ UNCHANGED retr_log
       \/ \E e \in ErrTexts :
          /\ retr_log' = Append(retr_log,
                                LogRec("error", "Error getting metrics", e))
          /\ retr_resp' = [endpoint |-> "metrics", status |-> HTTP_500,
                           raised |-> NoExc,
                           body |-> [detail |->
                                       <<"Error retrieving metrics: ", e>>]]
    /\ UNCHANGED <<agentVars, debug, life, calls, startup_exc>>

\* global_exception_handler: the keyword arguments given to ErrorResponse.
HandlerKwargs(e, now) ==
    [error |-> "Internal server error",
     detail |-> IF debug THEN e ELSE "An unexpected error occurred",
     timestamp |-> naive_now(now)]

\* A request of the included router raises `e`, which no handler of the
\* route catches: global_exception_handler runs.
global_exception_handler ==
    /\ life = "running"
    /\ served < MaxRetrRequests
    /\ served' = served + 1
    /\ \E e \in ErrTexts, now \in Clock :
         /\ retr_log' = Append(retr_log,
                               LogRec("error", "Unhandled exception", e))
         /\ retr_resp' =
              LET kw == HandlerKwargs(e, now)
              IN  IF ErrorResponseValid(kw)
                  THEN [endpoint |-> "search", status |-> HTTP_500,
                        raised |-> NoExc, cause |-> e,
                        body |-> ErrorResponse(kw)]
                  ELSE [endpoint |-> "search", status |-> HTTP_500,
                        raised |-> "ValidationError", cause |-> e,
                        body |-> PyNone]
    /\ UNCHANGED <<agentVars, debug, life, calls, startup_exc>>

RetrieverNext ==
    \/ lifespan_enter
    \/ connect_to_mongo
    \/ connect_to_chromaDB
    \/ initialize_embedding_service
    \/ initialize_rag_retriever
    \/ lifespan_resume
    \/ close_mongo_connection
    \/ root
    \/ get_metrics
    \/ global_exception_handler

\* ================================================================ specifications

\* The agent service, the retriever service not started.
Init == InitAgent /\ InitRetr /\ debug = TRUE

Spec == Init /\ [][Next]_vars

\* The retriever service, the agent service not receiving requests.
RetrieverInit == InitAgent /\ InitRetr

RetrieverSpec == RetrieverInit /\ [][RetrieverNext]_vars

\* ======================================================================= claims

Last(q) == q[Len(q)]
IsPrefix(p, q) == Len(p) <= Len(q) /\ SubSeq(q, 1, Len(p)) = p
GraphOrder == <<"chat_start", "llm_response">>
Answered(t) == pc[t] = "done" /\ exc[t] = NoExc
Failed(t) == pc[t] = "done" /\ exc[t] # NoExc
CloseCalls == {i \in DOMAIN calls : calls[i] = "close_mongo_connection"}

\* C1: a chat request with a string in_message during which neither agent
\* construction nor the graph invocation raises is answered with HTTP 200,
\* a non-null data field holding the final graph state, the message
\* "Answer generated successfully" and error = null; this holds for every
\* request of a sequence, the one that constructs the agent included.
C1_ChatReturnsOk ==
    \A t \in Workers :
        Answered(t) =>
            /\ in_message[t] \in Messages
            /\ resp[t].status = 200
            /\ resp[t].data # PyNone
            /\ resp[t].data = gstate[t]
            /\ resp[t].data.user_message = in_message[t]
            /\ resp[t].message = "Answer generated successfully"
            /\ resp[t].error = PyNone

\* C1 witness: the request that lazily constructed the agent is answered.
C1_Witness ==
    \E t \in Workers :
        Answered(t) /\ fresh[t] # NoAgent /\ resp[t].status = 200

\* C2: an exception raised in get_agent() or in agent.chat() does not leave
\* the handler: the handler returns HTTP 400 with data = {}, the failure
\* message and error = {error_code: 400, error_message: text of the
\* exception}; the status is 200 exactly when no exception was raised.
C2_ExceptionGives400 ==
    \A t \in Workers :
        pc[t] = "done" =>
            /\ "status" \in DOMAIN resp[t]
            /\ resp[t].status \in {200, 400}
            /\ (resp[t].status = 200) <=> (exc[t] = NoExc)
            /\ exc[t] # NoExc =>
                  /\ resp[t].status = 400
                  /\ resp[t].data = <<>>
                  /\ resp[t].message = "Chatting failed, something went wrong."
                  /\ resp[t].error # PyNone
                  /\ resp[t].error.error_code = 400
                  /\ resp[t].error.error_message = exc[t]

\* C2 witness: one request failed while constructing the agent and another
\* one failed inside agent.chat(), both answered with 400.
C2_Witness ==
    \E t, u \in Workers :
        /\ Failed(t) /\ held[t] = NoAgent /\ resp[t].status = 400
        /\ Failed(u) /\ held[u] # NoAgent /\ resp[u].status = 400

\* C3 (as stated): Agent() is constructed at most once, the global agent is
\* stored at most once, and every call of get_agent() returns the instance
\* constructed first.
C3_SingleInstance ==
    /\ constructed <= 1
    /\ assigned <= 1
    /\ \A t \in Workers : held[t] # NoAgent => held[t] = 1

\* C4: health_check returns status "healthy", a non-null ISO timestamp in
\* UTC and the configured version; it never returns "unhealthy" or a null
\* time_and_zone.
C4_HealthAlwaysHealthy ==
    health # PyNone =>
        /\ health.status = "healthy"
        /\ health.time_and_zone # PyNone
        /\ health.time_and_zone.iso \in Clock
        /\ health.time_and_zone.offset = "+00:00"
        /\ health.version = app_version

\* C4 witness: a health check has been answered.
C4_Witness == health # PyNone /\ health.status = "healthy"

\* C5: the startup steps are awaited in the order connect_to_mongo,
\* connect_to_chromaDB, initialize_embedding_service,
\* initialize_rag_retriever; when a step raises, the failure is the last
\* thing logged, the exception leaves the hook, no later step runs, the
\* hook never reaches the yield and no request is served.
C5_StartupOrderAndAbort ==
    /\ IsPrefix(SubSeq(calls, 1, IF Len(calls) < 4 THEN Len(calls) ELSE 4),
                StartupOrder)
    /\ startup_exc # NoExc =>
          /\ life = "aborted"
          /\ served = 0
          /\ retr_resp = PyNone
          /\ Len(calls) <= 4
          /\ Last(retr_log) =
                LogRec("error", "Failed to initialize services", startup_exc)
    /\ life \in {"running", "closing", "stopped"} =>
          /\ startup_exc = NoExc
          /\ Len(calls) >= 4
    /\ served > 0 => SubSeq(calls, 1, 4) = StartupOrder

\* C5 witness: connect_to_chromaDB raised after connect_to_mongo succeeded.
C5_Witness ==
    /\ startup_exc # NoExc
    /\ calls = <<"connect_to_mongo", "connect_to_chromaDB">>
    /\ life = "aborted"

\* C6 (as stated): for an uncaught exception global_exception_handler
\* completes without raising and answers 500 with the text of the exception
\* when settings.debug is true and the generic text when it is false.
C6_HandlerAnswers500 ==
    (retr_resp # PyNone /\ retr_resp.endpoint = "search") =>
        /\ retr_resp.raised = NoExc
        /\ retr_resp.status = 500
        /\ retr_resp.body.detail =
              IF debug THEN retr_resp.cause
              ELSE "An unexpected error occurred"

\* C7: the None check and the store of get_agent() are separate steps with
\* no lock between them: every worker that constructs an Agent made its
\* None check before the first store into the global, so an Agent is built
\* more than once only by first requests that overlap, and at most once per
\* worker thread.
C7_DuplicatesOnlyFromOverlap ==
    /\ \A t \in Workers :
          pc[t] \in {"construct", "store"} =>
              /\ checked_at[t] = 0
              /\ assigned < Cardinality(Workers)
    /\ constructed <= Cardinality(Workers)
    /\ assigned <= constructed

\* C7 witness: Agent() has been constructed twice and two requests in
\* flight hold different instances.
C7_Witness ==
    /\ constructed >= 2
    /\ \E t, u \in Workers :
          /\ held[t] # NoAgent
          /\ held[u] # NoAgent
          /\ held[t] # held[u]

\* C8: every invocation starts from an empty message list and runs
\* chat_start then llm_response, once each; the final state's messages are
\* the human message with content in_message followed by the placeholder
\* AI message, whatever calls came before.
C8_TwoNodesTwoMessages ==
    \A t \in Workers :
        /\ IsPrefix(trace[t], GraphOrder)
        /\ pc[t] = "chat_start" =>
              /\ gstate[t].messages = <<>>
              /\ trace[t] = <<>>
        /\ (pc[t] = "respond" \/ Answered(t)) =>
              /\ trace[t] = GraphOrder
              /\ gstate[t].messages =
                    << [type |-> "human", content |-> in_message[t]],
                       [type |-> "ai", content |->
                          "this is the pseudo generated message from an AI"] >>
        /\ Answered(t) => resp[t].data.messages = gstate[t].messages

\* C8 witness: a later call on the already shared agent has finished.
C8_Witness ==
    \E t \in Workers :
        /\ Answered(t)
        /\ checked_at[t] >= 1
        /\ started >= 2
        /\ Len(resp[t].data.messages) = 2

\* C9 (as stated): a failing chat request is attempted once, is answered
\* with a structured error, and a log record of its exception has been
\* emitted by the time the error response is returned.
C9_FailureIsLogged ==
    \A t \in Workers :
        Failed(t) =>
            /\ attempts[t] = 1
            /\ resp[t].status = 400
            /\ \E i \in DOMAIN agent_log :
                  agent_log[i].level = "error" /\ agent_log[i].arg = exc[t]

\* C10: close_mongo_connection is awaited at most once and only after all
\* four startup steps succeeded and the hook resumed after the yield; a
\* failed startup leaves the hook without awaiting it; an exception it
\* raises is logged and swallowed, so the shutdown phase completes.
C10_CloseOnlyAtShutdown ==
    /\ Cardinality(CloseCalls) <= 1
    /\ CloseCalls # {} =>
          /\ startup_exc = NoExc
          /\ SubSeq(calls, 1, 4) = StartupOrder
          /\ CloseCalls = {5}
          /\ life = "stopped"
          /\ Last(retr_log).msg \in {"MongoDB connection closed",
                                     "Error closing MongoDB connection"}
    /\ life = "aborted" => CloseCalls = {} /\ startup_exc # NoExc
    /\ life = "stopped" => CloseCalls # {}

\* C10 witness: close_mongo_connection raised during shutdown and the hook
\* still ran to its end.
C10_Witness ==
    /\ life = "stopped"
    /\ Last(retr_log).level = "error"
    /\ Last(retr_log).msg = "Error closing MongoDB connection"

====
